---- MODULE Spec2Model ----
(***************************************************************************)
(* conv_param_t of qnnpack/include/conv_utils.h: the constructor (hard      *)
(* checks, derived per-group channel counts, efficiency diagnostics,       *)
(* micro-kernel classification) and compute_output_dims.                   *)
(*                                                                         *)
(* uint32_t and size_t values keep their real widths.  TLC's integers stop *)
(* at 2^31 - 1, so an unsigned value is a little-endian sequence of 8-bit  *)
(* limbs with no leading zero limb (0 is <<>>): uint32_t arithmetic is     *)
(* arithmetic on such sequences cut to 4 limbs, size_t arithmetic is cut   *)
(* to 8 limbs, and the same sequences uncut are the mathematical naturals. *)
(***************************************************************************)
EXTENDS Integers, Sequences, FiniteSets

\* ------------------------------------------------------------------------
\* Unsigned integers as limb sequences
\* ------------------------------------------------------------------------

\* Width of uint32_t in 8-bit limbs.
U32Limbs == 4

\* Width of size_t in 8-bit limbs (LP64).
SizeLimbs == 8

Limb(a, i) == IF i <= Len(a) THEN a[i] ELSE 0

Max2(x, y) == IF x >= y THEN x ELSE y

RECURSIVE Norm(_)
\* Drop the most significant zero limbs.
Norm(a) ==
  IF a = <<>> THEN <<>>
  ELSE IF a[Len(a)] = 0 THEN Norm(SubSeq(a, 1, Len(a) - 1))
  ELSE a

RECURSIVE N(_)
\* The limb sequence of a small literal.
N(k) == IF k = 0 THEN <<>> ELSE <<k % 256>> \o N(k \div 256)

RECURSIVE AddFrom(_, _, _, _)
AddFrom(a, b, i, carry) ==
  IF i > Max2(Len(a), Len(b))
  THEN (IF carry = 0 THEN <<>> ELSE <<carry>>)
  ELSE LET s == Limb(a, i) + Limb(b, i) + carry
       IN <<s % 256>> \o AddFrom(a, b, i + 1, s \div 256)

\* a + b over the naturals.
Add(a, b) == AddFrom(a, b, 1, 0)

RECURSIVE LtFrom(_, _, _)
LtFrom(a, b, i) ==
  IF i = 0 THEN FALSE
  ELSE IF a[i] # b[i] THEN a[i] < b[i]
  ELSE LtFrom(a, b, i - 1)

\* a < b over the naturals.
Lt(a, b) ==
  IF Len(a) # Len(b) THEN Len(a) < Len(b) ELSE LtFrom(a, b, Len(a))

Le(a, b) == ~Lt(b, a)

RECURSIVE SubFrom(_, _, _, _)
SubFrom(a, b, i, borrow) ==
  IF i > Len(a) THEN <<>>
  ELSE LET d == a[i] - Limb(b, i) - borrow
       IN IF d < 0 THEN <<d + 256>> \o SubFrom(a, b, i + 1, 1)
          ELSE <<d>> \o SubFrom(a, b, i + 1, 0)

\* a - b over the naturals, for b <= a.
Sub(a, b) == Norm(SubFrom(a, b, 1, 0))

RECURSIVE MulLimbFrom(_, _, _, _)
MulLimbFrom(a, d, i, carry) ==
  IF i > Len(a)
  THEN (IF carry = 0 THEN <<>> ELSE <<carry>>)
  ELSE LET p == a[i] * d + carry
       IN <<p % 256>> \o MulLimbFrom(a, d, i + 1, p \div 256)

\* a * d over the naturals, for one limb d.
MulLimb(a, d) == Norm(MulLimbFrom(a, d, 1, 0))

RECURSIVE Mul(_, _)
\* a * b over the naturals.
Mul(a, b) ==
  IF a = <<>> \/ b = <<>> THEN <<>>
  ELSE LET rest == Mul(a, Tail(b))
       IN Norm(Add(MulLimb(a, Head(b)),
                   IF rest = <<>> THEN <<>> ELSE <<0>> \o rest))

RECURSIVE DigitFrom(_, _, _, _)
\* Binary search for the largest limb q with q * b <= r, given d * b <= r.
DigitFrom(b, r, d, step) ==
  IF step = 0 THEN d
  ELSE IF Le(MulLimb(b, d + step), r)
       THEN DigitFrom(b, r, d + step, step \div 2)
       ELSE DigitFrom(b, r, d, step \div 2)

RECURSIVE DivModFrom(_, _, _, _, _)
\* Long division: limbs i .. 1 of a are still to be brought down, q and r are
\* the quotient and remainder of the limbs above them.
DivModFrom(a, b, i, q, r) ==
  IF i = 0 THEN [quot |-> Norm(q), rem |-> r]
  ELSE LET r2 == Norm(<<a[i]>> \o r)
           d == DigitFrom(b, r2, 0, 128)
       IN IF d = 0
          THEN DivModFrom(a, b, i - 1, <<0>> \o q, r2)
          ELSE DivModFrom(a, b, i - 1, <<d>> \o q, Sub(r2, MulLimb(b, d)))

\* floor(a / b) and a mod b over the naturals, for b # 0.
DivMod(a, b) == DivModFrom(a, b, Len(a), <<>>, <<>>)

\* a mod 2^(8 * limbs): the value a fixed-width unsigned type keeps.
Wrap(a, limbs) ==
  IF Len(a) <= limbs THEN a ELSE Norm(SubSeq(a, 1, limbs))

RECURSIVE Pow256(_)
\* 2^(8 * limbs).
Pow256(limbs) == IF limbs = 0 THEN <<1>> ELSE <<0>> \o Pow256(limbs - 1)

\* a - b in an unsigned type of the given width (wraps below zero).
WrapSub(a, b, limbs) ==
  IF Le(b, a) THEN Sub(a, b) ELSE Sub(Add(a, Pow256(limbs)), b)

RECURSIVE MaxOf(_)
\* The largest value of an unsigned type of the given width.
MaxOf(limbs) == IF limbs = 0 THEN <<>> ELSE <<255>> \o MaxOf(limbs - 1)

SIZE_MAX == MaxOf(SizeLimbs)

\* uint32_t and size_t arithmetic (unsigned, wrapping).
U32Add(a, b) == Wrap(Add(a, b), U32Limbs)
U32Mul(a, b) == Wrap(Mul(a, b), U32Limbs)
SizeAdd(a, b) == Wrap(Add(a, b), SizeLimbs)
SizeSub(a, b) == WrapSub(a, b, SizeLimbs)
SizeMul(a, b) == Wrap(Mul(a, b), SizeLimbs)

\* ------------------------------------------------------------------------
\* Values of the other parameter types
\* ------------------------------------------------------------------------

\* std::array<uint32_t, 2> and std::array<uint32_t, 4>, indexed from 0.
Array2(e0, e1) == [i \in 0..1 |-> IF i = 0 THEN e0 ELSE e1]
Array4(e0, e1, e2, e3) ==
  [i \in 0..3 |-> IF i = 0 THEN e0 ELSE IF i = 1 THEN e1
                  ELSE IF i = 2 THEN e2 ELSE e3]

\* A float by its class: sign, and zero / subnormal / normal / infinite / NaN.
FloatClasses ==
  {"pos_normal", "neg_normal", "pos_zero", "pos_subnormal", "pos_inf", "nan"}

\* kernel_scale <= 0.0f
LeZero(f) == f \in {"neg_normal", "pos_zero"}

\* std::isnormal(kernel_scale)
isnormal(f) == f \in {"pos_normal", "neg_normal"}

\* The outcomes of an unsigned division or remainder by zero (undefined
\* behaviour): the process traps, or the operation yields some value.
UBValues == {<<>>, N(1), SIZE_MAX}
DivByZero ==
  {[trap |-> TRUE, quot_in |-> <<>>, quot_out |-> <<>>,
    rem_in |-> <<>>, rem_out |-> <<>>]}
  \cup [trap : {FALSE}, quot_in : UBValues, quot_out : UBValues,
        rem_in : {<<>>, N(1)}, rem_out : {<<>>, N(1)}]
NoUB ==
  [trap |-> FALSE, quot_in |-> <<>>, quot_out |-> <<>>,
   rem_in |-> <<>>, rem_out |-> <<>>]

\* ------------------------------------------------------------------------
\* conv_param_t: the constructor
\* ------------------------------------------------------------------------

\* _name
name_of(transpose) == IF transpose THEN "deconvolution" ELSE "convolution"

Diagnostic(sev, what, a) ==
  [severity |-> sev, what |-> what, name |-> name_of(a.transpose)]

When(cond, entry) == IF cond THEN <<entry>> ELSE <<>>

\* pytorch_qnnp_log_error calls of the hard checks, in program order.  Each is
\* followed by assert("Failed to ..."), whose argument is a non-null string
\* literal: the assertion never fails and the constructor goes on.
ErrorDiagnostics(a, rem_in, rem_out) ==
     When(a.groups = <<>>, Diagnostic("error", "groups", a))
  \o When(rem_in # <<>> \/ rem_out # <<>>, Diagnostic("error", "channels", a))
  \o When(a.kernel_dims[0] = <<>> \/ a.kernel_dims[1] = <<>>,
          Diagnostic("error", "kernel", a))
  \o When(a.stride_dims[0] = <<>> \/ a.stride_dims[1] = <<>>,
          Diagnostic("error", "stride", a))
  \o When(a.dilation[0] = <<>> \/ a.dilation[1] = <<>>,
          Diagnostic("error", "dilation", a))
  \o When(LeZero(a.kernel_scale) \/ ~isnormal(a.kernel_scale),
          Diagnostic("error", "scale", a))

\* InfoDiagnostics with the two stride comparisons made >= instead of >.
InfoDiagnosticsGe(a) ==
     When(Le(a.kernel_dims[1], a.stride_dims[1]),
          Diagnostic("info", "stride_height", a))
  \o When(Le(a.kernel_dims[0], a.stride_dims[0]),
          Diagnostic("info", "stride_width", a))
  \o When(Le(a.kernel_dims[1], a.padding[0]),
          Diagnostic("info", "padding_top", a))
  \o When(Le(a.kernel_dims[1], a.padding[2]),
          Diagnostic("info", "padding_bottom", a))
  \o When(Le(a.kernel_dims[0], a.padding[3]),
          Diagnostic("info", "padding_right", a))
  \o When(Le(a.kernel_dims[0], a.padding[1]),
          Diagnostic("info", "padding_left", a))

\* pytorch_qnnp_log_info calls, in program order (kernel_width is
\* kernel_dims[0], kernel_height is kernel_dims[1], padding is top, left,
\* bottom, right).
InfoDiagnostics(a) ==
     When(Lt(a.kernel_dims[1], a.stride_dims[1]),
          Diagnostic("info", "stride_height", a))
  \o When(Lt(a.kernel_dims[0], a.stride_dims[0]),
          Diagnostic("info", "stride_width", a))
  \o When(Le(a.kernel_dims[1], a.padding[0]),
          Diagnostic("info", "padding_top", a))
  \o When(Le(a.kernel_dims[1], a.padding[2]),
          Diagnostic("info", "padding_bottom", a))
  \o When(Le(a.kernel_dims[0], a.padding[3]),
          Diagnostic("info", "padding_right", a))
  \o When(Le(a.kernel_dims[0], a.padding[1]),
          Diagnostic("info", "padding_left", a))

\* channels % groups and channels / groups in size_t; by zero the outcome is ub's.
channels_rem(channels, groups, ub_rem) ==
  IF groups = <<>> THEN ub_rem ELSE DivMod(channels, groups).rem
\* channels_quot with the operands of the division exchanged.
channels_quot_swapped(channels, groups, ub_quot) ==
  IF groups = <<>> THEN ub_quot ELSE DivMod(groups, channels).quot

channels_quot(channels, groups, ub_quot) ==
  IF groups = <<>> THEN ub_quot ELSE DivMod(channels, groups).quot

\* const size_t kernel_size = kernel_height * kernel_width;
\* the product is taken in uint32_t and then widened.
kernel_size(a) == U32Mul(a.kernel_dims[1], a.kernel_dims[0])

\* (input_padding_left | input_padding_top | input_padding_right
\*  | input_padding_bottom) != 0
any_padding(a) == \E i \in 0..3 : a.padding[i] # <<>>

pytorch_qnnp_ukernel_type_none == "none"
pytorch_qnnp_ukernel_type_conv == "conv"
pytorch_qnnp_ukernel_type_dwconv == "dwconv"
pytorch_qnnp_ukernel_type_gemm == "gemm"
pytorch_qnnp_ukernel_type_xzp_gemm == "xzp_gemm"

\* xzp_threshold as a small channel count.
xzp_threshold_small == N(8)

\* The threshold group_input_channels is compared with for xzp_gemm.
xzp_threshold == SIZE_MAX

\* classify without the groups > 1 test of the depthwise branch.
classify_any_groups(a, group_input_channels, group_output_channels) ==
  IF a.transpose THEN pytorch_qnnp_ukernel_type_conv
  ELSE IF (kernel_size(a) = N(9) \/ kernel_size(a) = N(25))
          /\ group_input_channels = N(1) /\ group_output_channels = N(1)
       THEN pytorch_qnnp_ukernel_type_dwconv
       ELSE IF kernel_size(a) = N(1) /\ a.stride_dims[1] = N(1)
               /\ a.stride_dims[0] = N(1) /\ ~any_padding(a)
       THEN (IF Le(xzp_threshold, group_input_channels)
             THEN pytorch_qnnp_ukernel_type_xzp_gemm
             ELSE pytorch_qnnp_ukernel_type_gemm)
       ELSE pytorch_qnnp_ukernel_type_conv

\* classify without the final else branch: the none stored first stays.
classify_no_fallback(a, group_input_channels, group_output_channels) ==
  IF a.transpose THEN pytorch_qnnp_ukernel_type_conv
  ELSE IF (kernel_size(a) = N(9) \/ kernel_size(a) = N(25))
          /\ group_input_channels = N(1) /\ group_output_channels = N(1)
          /\ Lt(N(1), a.groups)
       THEN pytorch_qnnp_ukernel_type_dwconv
       ELSE IF kernel_size(a) = N(1) /\ a.stride_dims[1] = N(1)
               /\ a.stride_dims[0] = N(1) /\ ~any_padding(a)
       THEN (IF Le(xzp_threshold, group_input_channels)
             THEN pytorch_qnnp_ukernel_type_xzp_gemm
             ELSE pytorch_qnnp_ukernel_type_gemm)
       ELSE pytorch_qnnp_ukernel_type_none

\* The classification at the end of the constructor.  Without transpose the
\* code first stores none and then overwrites it in each of the three branches.
classify(a, group_input_channels, group_output_channels) ==
  IF a.transpose THEN pytorch_qnnp_ukernel_type_conv
  ELSE IF (kernel_size(a) = N(9) \/ kernel_size(a) = N(25))
          /\ group_input_channels = N(1) /\ group_output_channels = N(1)
          /\ Lt(N(1), a.groups)
       THEN pytorch_qnnp_ukernel_type_dwconv
       ELSE IF kernel_size(a) = N(1) /\ a.stride_dims[1] = N(1)
               /\ a.stride_dims[0] = N(1) /\ ~any_padding(a)
       THEN (IF Le(xzp_threshold, group_input_channels)
             THEN pytorch_qnnp_ukernel_type_xzp_gemm
             ELSE pytorch_qnnp_ukernel_type_gemm)
       ELSE pytorch_qnnp_ukernel_type_conv

\* The whole constructor on arguments a: the diagnostics it logs and, unless
\* the division by a zero groups traps, the object it leaves.
conv_param_t(a, ub) ==
  LET rem_in == channels_rem(a.input_channels, a.groups, ub.rem_in)
      rem_out == channels_rem(a.output_channels, a.groups, ub.rem_out)
      gic == channels_quot(a.input_channels, a.groups, ub.quot_in)
      goc == channels_quot(a.output_channels, a.groups, ub.quot_out)
  IN IF a.groups = <<>> /\ ub.trap
     THEN [trapped |-> TRUE,
           log |-> When(TRUE, Diagnostic("error", "groups", a)),
           object |-> a]
     ELSE [trapped |-> FALSE,
           log |-> ErrorDiagnostics(a, rem_in, rem_out) \o InfoDiagnostics(a),
           object |-> [kernel_dims |-> a.kernel_dims,
                       stride_dims |-> a.stride_dims,
                       dilation |-> a.dilation,
                       padding |-> a.padding,
                       adjustment_dims |-> a.adjustment_dims,
                       groups |-> a.groups,
                       input_channels |-> a.input_channels,
                       output_channels |-> a.output_channels,
                       kernel_zero_point |-> a.kernel_zero_point,
                       kernel_scale |-> a.kernel_scale,
                       output_min |-> a.output_min,
                       output_max |-> a.output_max,
                       transpose |-> a.transpose,
                       ukernel_type |-> classify(a, gic, goc),
                       group_input_channels |-> gic,
                       group_output_channels |-> goc]]

\* ------------------------------------------------------------------------
\* compute_output_dims
\* ------------------------------------------------------------------------

\* The outcomes of the size_t division by a zero stride_dim.
DimDivByZero ==
  {[trap |-> TRUE, quot |-> <<>>]} \cup [trap : {FALSE}, quot : UBValues]
NoDimUB == [trap |-> FALSE, quot |-> <<>>]

\* compute_output_dimension, every operand a size_t.
compute_output_dimension(input_dim, pad_dim, adjustment_dim, kernel_dim, dilation_dim, stride_dim, transpose, ub) ==
  LET effective ==
        SizeAdd(SizeMul(SizeSub(kernel_dim, N(1)), dilation_dim), N(1))
  IN IF transpose
     THEN [trap |-> FALSE,
           value |-> SizeSub(SizeAdd(SizeAdd(SizeMul(stride_dim,
                                                     SizeSub(input_dim, N(1))),
                                             adjustment_dim),
                                     effective),
                             pad_dim)]
     ELSE IF stride_dim = <<>>
     THEN [trap |-> ub.trap, value |-> SizeAdd(ub.quot, N(1))]
     ELSE [trap |-> FALSE,
           value |-> SizeAdd(DivMod(SizeSub(SizeAdd(input_dim, pad_dim),
                                            effective),
                                    stride_dim).quot,
                             N(1))]

\* output_dims[0] = compute_output_dimension(input_dims[0], ...): the padding
\* sum is taken in uint32_t before it is widened to size_t.
output_width(o, in, ub) ==
  compute_output_dimension(in[0], U32Add(o.padding[1], o.padding[3]),
                           o.adjustment_dims[0], o.kernel_dims[0],
                           o.dilation[0], o.stride_dims[0], o.transpose, ub)

\* output_dims[1] = compute_output_dimension(input_dims[1], ...)
output_height(o, in, ub) ==
  compute_output_dimension(in[1], U32Add(o.padding[0], o.padding[2]),
                           o.adjustment_dims[1], o.kernel_dims[1],
                           o.dilation[1], o.stride_dims[1], o.transpose, ub)

\* The undefined-behaviour outcomes open to one axis of a call on object o.
DimOutcomes(o, axis) ==
  IF ~o.transpose /\ o.stride_dims[axis] = <<>> THEN DimDivByZero ELSE {NoDimUB}

\* ------------------------------------------------------------------------
\* Arguments and input extents the model draws from
\* ------------------------------------------------------------------------

\* Kernel dimensions 0 .. MaxSmallKernel are all tried, beside the larger ones
\* listed in KernelDims.
MaxSmallKernel == 3

\* Number of threads calling compute_output_dims on the one object.
NumCallers == 2

Callers == 1..NumCallers

TwoTo31 == <<0, 0, 0, 128>>
Above31(k) == Add(TwoTo31, N(k))
TwoTo16 == <<0, 0, 1>>

Zero2 == Array2(<<>>, <<>>)
One2 == Array2(N(1), N(1))

BaseArgs ==
  [kernel_dims |-> Array2(N(3), N(3)),
   stride_dims |-> One2,
   dilation |-> One2,
   padding |-> Array4(<<>>, <<>>, <<>>, <<>>),
   adjustment_dims |-> Zero2,
   groups |-> N(1),
   input_channels |-> N(4),
   output_channels |-> N(4),
   kernel_zero_point |-> 0,
   kernel_scale |-> "pos_normal",
   output_min |-> 0,
   output_max |-> 255,
   transpose |-> FALSE]

KernelDims ==
  {Array2(N(w), N(h)) : w, h \in 0..MaxSmallKernel}
  \cup {Array2(N(5), N(5)), Array2(N(1), N(9)), Array2(N(9), N(1)),
        Array2(N(1), N(25)),
        Array2(N(25), N(1)), Array2(TwoTo16, TwoTo16),
        Array2(Above31(1), Above31(1)), Array2(Above31(3), Above31(3)),
        Array2(Above31(5), Above31(5)), Array2(Above31(3), N(3))}

StrideDims ==
  {One2, Array2(N(1), N(2)), Array2(N(2), N(1)), Array2(<<>>, N(1))}

Paddings ==
  {Array4(<<>>, <<>>, <<>>, <<>>), Array4(N(1), <<>>, <<>>, <<>>),
   Array4(<<>>, N(1), <<>>, <<>>), Array4(<<>>, <<>>, N(1), <<>>),
   Array4(<<>>, <<>>, <<>>, N(1)),
   Array4(N(3), N(5), N(2), N(4)), Array4(<<>>, TwoTo31, <<>>, TwoTo31)}

\* <<groups, input_channels, output_channels>>
GroupsAndChannels ==
  {<<N(1), N(4), N(4)>>, <<N(4), N(4), N(4)>>, <<N(4), N(8), N(4)>>,
   <<N(4), N(4), N(8)>>, <<N(4), N(5), N(4)>>, <<N(3), N(10), N(3)>>,
   <<N(1), N(1), N(1)>>, <<N(1), SIZE_MAX, N(4)>>,
   <<N(1), N(4), SIZE_MAX>>, <<N(2), SIZE_MAX, N(2)>>}

\* Arguments that vary what the classification and the diagnostics read.
ShapeArgs ==
  {[BaseArgs EXCEPT !.transpose = t, !.kernel_dims = k, !.stride_dims = s,
                    !.padding = p, !.groups = g[1],
                    !.input_channels = g[2], !.output_channels = g[3]] :
     t \in BOOLEAN, k \in KernelDims, s \in StrideDims, p \in Paddings,
     g \in GroupsAndChannels}

\* Arguments that vary the fields the classification does not read.
OtherArgs ==
  {[BaseArgs EXCEPT !.transpose = t, !.kernel_dims = k, !.groups = g[1],
                    !.input_channels = g[2], !.output_channels = g[3],
                    !.dilation = d, !.adjustment_dims = j,
                    !.kernel_scale = f, !.kernel_zero_point = z,
                    !.output_min = m[1], !.output_max = m[2]] :
     t \in BOOLEAN, k \in {One2, Array2(N(3), N(3))},
     g \in {<<N(1), N(4), N(4)>>, <<N(4), N(4), N(4)>>},
     d \in {One2, Array2(N(2), N(1)), Array2(<<>>, N(1)), Array2(N(1), <<>>)},
     j \in {Zero2, Array2(N(1), N(2))}, f \in FloatClasses, z \in {0, 255},
     m \in {<<0, 255>>, <<10, 5>>}}

\* Arguments with groups = 0, whose division is undefined behaviour.
ZeroGroupsArgs ==
  {[BaseArgs EXCEPT !.transpose = t, !.kernel_dims = k, !.groups = <<>>,
                    !.input_channels = c, !.output_channels = c] :
     t \in BOOLEAN, k \in {One2, Array2(N(3), N(3))}, c \in {<<>>, N(4)}}

CtorArgs == ShapeArgs \cup OtherArgs

\* Arguments for the objects compute_output_dims is called on.
DimsArgs ==
  {BaseArgs,
   [BaseArgs EXCEPT !.padding = Array4(N(1), N(1), N(1), N(1))],
   [BaseArgs EXCEPT !.stride_dims = Array2(N(2), N(2))],
   [BaseArgs EXCEPT !.stride_dims = Array2(N(2), N(2)), !.transpose = TRUE],
   [BaseArgs EXCEPT !.kernel_dims = Array2(N(3), N(5)),
                    !.stride_dims = Array2(N(1), N(2)),
                    !.dilation = Array2(N(2), N(1)),
                    !.padding = Array4(<<>>, N(1), N(2), N(3)),
                    !.adjustment_dims = Array2(N(1), <<>>)],
   [BaseArgs EXCEPT !.kernel_dims = Array2(N(3), N(5)),
                    !.stride_dims = Array2(N(1), N(2)),
                    !.dilation = Array2(N(2), N(1)),
                    !.padding = Array4(<<>>, N(1), N(2), N(3)),
                    !.adjustment_dims = Array2(N(1), <<>>),
                    !.transpose = TRUE],
   [BaseArgs EXCEPT !.padding = Array4(<<>>, TwoTo31, <<>>, TwoTo31)],
   [BaseArgs EXCEPT !.padding = Array4(Above31(1), <<>>, Above31(1), <<>>),
                    !.transpose = TRUE],
   [BaseArgs EXCEPT !.kernel_dims = Array2(<<>>, N(3))],
   [BaseArgs EXCEPT !.stride_dims = Array2(<<>>, N(1))],
   [BaseArgs EXCEPT !.kernel_dims = Array2(MaxOf(U32Limbs), N(1)),
                    !.dilation = Array2(MaxOf(U32Limbs), N(1)),
                    !.transpose = TRUE],
   [BaseArgs EXCEPT !.kernel_dims = One2, !.groups = N(3),
                    !.input_channels = N(10)],
   [BaseArgs EXCEPT !.groups = <<>>]}

\* Input extents <<width, height>> given to compute_output_dims.
InputDims ==
  {Array2(N(8), N(8)), Array2(N(7), N(7)), Array2(N(3), N(3)),
   Array2(N(5), N(8))}

\* ------------------------------------------------------------------------
\* State and actions
\* ------------------------------------------------------------------------

VARIABLES
  phase,        \* "new", "constructed", or "trapped" (the process died)
  object,       \* the conv_param_t, once constructed
  log,          \* the diagnostics given to the log sink, in order
  pc,           \* per caller: "idle", "width", "height", "returned"
  input_dims,   \* per caller: the argument of its current call
  output_dims,  \* per caller: the local output_dims of its current call
  result        \* per caller: what its last call returned

vars == <<phase, object, log, pc, input_dims, output_dims, result>>

NoObject == [exists |-> FALSE]

Init ==
  /\ phase = "new"
  /\ object = NoObject
  /\ log = <<>>
  /\ pc = [t \in Callers |-> "idle"]
  /\ input_dims = [t \in Callers |-> Zero2]
  /\ output_dims = [t \in Callers |-> Zero2]
  /\ result = [t \in Callers |-> Zero2]

\* conv_param_t::conv_param_t on arguments a.
Construct(a, ub) ==
  /\ phase = "new"
  /\ \E made \in {conv_param_t(a, ub)} :
        /\ phase' = IF made.trapped THEN "trapped" ELSE "constructed"
        /\ object' = IF made.trapped THEN NoObject ELSE made.object
        /\ log' = made.log
  /\ UNCHANGED <<pc, input_dims, output_dims, result>>

\* A caller enters compute_output_dims(d): output_dims is a fresh local.
Call(t, d) ==
  /\ phase = "constructed"
  /\ pc[t] \in {"idle", "returned"}
  /\ pc' = [pc EXCEPT ![t] = "width"]
  /\ input_dims' = [input_dims EXCEPT ![t] = d]
  /\ output_dims' = [output_dims EXCEPT ![t] = Zero2]
  /\ result' = [result EXCEPT ![t] = Zero2]
  /\ UNCHANGED <<phase, object, log>>

\* StepWidth with output_dims a static array shared by every caller.
StepWidthShared(t, ub) ==
  /\ phase = "constructed"
  /\ pc[t] = "width"
  /\ \E r \in {output_width(object, input_dims[t], ub)} :
        IF r.trap
        THEN /\ phase' = "trapped"
             /\ UNCHANGED <<pc, output_dims>>
        ELSE /\ phase' = phase
             /\ pc' = [pc EXCEPT ![t] = "height"]
             /\ output_dims' =
                  [u \in Callers |-> [output_dims[u] EXCEPT ![0] = r.value]]
  /\ UNCHANGED <<object, log, input_dims, result>>

\* output_dims[0] = compute_output_dimension(...)
StepWidth(t, ub) ==
  /\ phase = "constructed"
  /\ pc[t] = "width"
  /\ \E r \in {output_width(object, input_dims[t], ub)} :
        IF r.trap
        THEN /\ phase' = "trapped"
             /\ UNCHANGED <<pc, output_dims>>
        ELSE /\ phase' = phase
             /\ pc' = [pc EXCEPT ![t] = "height"]
             /\ output_dims' = [output_dims EXCEPT ![t][0] = r.value]
  /\ UNCHANGED <<object, log, input_dims, result>>

\* output_dims[1] = compute_output_dimension(...); return output_dims;
StepHeight(t, ub) ==
  /\ phase = "constructed"
  /\ pc[t] = "height"
  /\ \E r \in {output_height(object, input_dims[t], ub)} :
        IF r.trap
        THEN /\ phase' = "trapped"
             /\ UNCHANGED <<pc, output_dims, result>>
        ELSE /\ phase' = phase
             /\ pc' = [pc EXCEPT ![t] = "returned"]
             /\ output_dims' = [output_dims EXCEPT ![t][1] = r.value]
             /\ result' = [result EXCEPT ![t] = output_dims'[t]]
  /\ UNCHANGED <<object, log, input_dims>>

UBChoices(a) == IF a.groups = <<>> THEN DivByZero ELSE {NoUB}

ConstructDims ==
  /\ phase = "new"
  /\ \E a \in DimsArgs : \E ub \in UBChoices(a) : Construct(a, ub)
ConstructAny ==
  /\ phase = "new"
  /\ \E a \in CtorArgs : Construct(a, NoUB)
ConstructZeroGroups ==
  /\ phase = "new"
  /\ \E a \in ZeroGroupsArgs : \E ub \in DivByZero : Construct(a, ub)
CallAny ==
  /\ phase = "constructed"
  /\ \E t \in Callers : \E d \in InputDims : Call(t, d)
WidthAny ==
  /\ phase = "constructed"
  /\ \E t \in Callers : \E ub \in DimOutcomes(object, 0) : StepWidth(t, ub)
HeightAny ==
  /\ phase = "constructed"
  /\ \E t \in Callers : \E ub \in DimOutcomes(object, 1) : StepHeight(t, ub)

\* One object, constructed once, then called by the callers.
Next == ConstructDims \/ CallAny \/ WidthAny \/ HeightAny
Spec == Init /\ [][Next]_vars

\* Construction alone, over the wide set of arguments.
NextCtor == ConstructAny \/ ConstructZeroGroups
SpecCtor == Init /\ [][NextCtor]_vars

\* ------------------------------------------------------------------------
\* Claims
\* ------------------------------------------------------------------------

Constructed == phase = "constructed"

Logged(sev, what) ==
  \E i \in 1..Len(log) : log[i].severity = sev /\ log[i].what = what

TimesLogged(sev, what) ==
  Cardinality({i \in 1..Len(log) :
                 log[i].severity = sev /\ log[i].what = what})

Divides(groups, channels) == DivMod(channels, groups).rem = <<>>

NoPadding(o) == \A i \in 0..3 : o.padding[i] = <<>>

\* C1: every object that exists after construction satisfies the hard
\* invariants (groups > 0, both channel counts divisible by groups, kernel,
\* stride and dilation dimensions > 0, kernel_scale normal and positive):
\* construction with any of them violated fails and leaves no object.
C1_HardInvariantsEnforced ==
  Constructed =>
    /\ object.groups # <<>>
    /\ Divides(object.groups, object.input_channels)
    /\ Divides(object.groups, object.output_channels)
    /\ \A i \in 0..1 : /\ object.kernel_dims[i] # <<>>
                       /\ object.stride_dims[i] # <<>>
                       /\ object.dilation[i] # <<>>
    /\ object.kernel_scale = "pos_normal"

\* The ordered rule list of the classification, with kernel_width *
\* kernel_height taken over the naturals.
RuleList(o) ==
  LET area == Mul(o.kernel_dims[0], o.kernel_dims[1])
  IN CASE o.transpose -> "conv"
       [] ~o.transpose /\ area \in {N(9), N(25)}
          /\ o.group_input_channels = N(1) /\ o.group_output_channels = N(1)
          /\ Lt(N(1), o.groups) -> "dwconv"
       [] ~o.transpose
          /\ ~(/\ area \in {N(9), N(25)}
               /\ o.group_input_channels = N(1)
               /\ o.group_output_channels = N(1)
               /\ Lt(N(1), o.groups))
          /\ area = N(1) /\ o.stride_dims = One2 /\ NoPadding(o) ->
            IF o.group_input_channels = SIZE_MAX THEN "xzp_gemm" ELSE "gemm"
       [] OTHER -> "conv"

\* C2: the stored ukernel_type is the result of the ordered rule list
\* (transpose -> conv; else area 9 or 25, one channel per group and groups > 1
\* -> dwconv; else area 1, stride (1,1), no padding -> gemm, xzp_gemm at the
\* threshold; else conv), a function of transpose, kernel_dims, stride_dims,
\* padding, groups and the per-group channel counts alone.
C2_ClassificationIsTheRuleList ==
  Constructed => object.ukernel_type = RuleList(object)

\* The reference output extent of one axis over the naturals, with
\*   input + pad - ((kernel - 1) * dilation + 1)
\* written as (input + pad + dilation) - (kernel * dilation + 1) and
\*   stride * (input - 1) + adjustment + ((kernel - 1) * dilation + 1) - pad
\* written as (stride * input + adjustment + kernel * dilation + 1)
\*            - (stride + dilation + pad),
\* so that no intermediate value is negative.
RefPlus(input, pad, adj, kernel, dil, stride, transpose) ==
  IF transpose
  THEN Add(Add(Add(Mul(stride, input), adj), Mul(kernel, dil)), N(1))
  ELSE Add(Add(input, pad), dil)
RefMinus(input, pad, adj, kernel, dil, stride, transpose) ==
  IF transpose
  THEN Add(Add(stride, dil), pad)
  ELSE Add(Mul(kernel, dil), N(1))
RefDefined(input, pad, adj, kernel, dil, stride, transpose) ==
  /\ Le(RefMinus(input, pad, adj, kernel, dil, stride, transpose),
        RefPlus(input, pad, adj, kernel, dil, stride, transpose))
  /\ transpose \/ stride # <<>>
RefDim(input, pad, adj, kernel, dil, stride, transpose) ==
  LET diff == Sub(RefPlus(input, pad, adj, kernel, dil, stride, transpose),
                  RefMinus(input, pad, adj, kernel, dil, stride, transpose))
  IN IF transpose THEN diff ELSE Add(DivMod(diff, stride).quot, N(1))

RefWidthDefined(o, in) ==
  RefDefined(in[0], Add(o.padding[1], o.padding[3]), o.adjustment_dims[0],
             o.kernel_dims[0], o.dilation[0], o.stride_dims[0], o.transpose)
RefWidth(o, in) ==
  RefDim(in[0], Add(o.padding[1], o.padding[3]), o.adjustment_dims[0],
         o.kernel_dims[0], o.dilation[0], o.stride_dims[0], o.transpose)
RefHeightDefined(o, in) ==
  RefDefined(in[1], Add(o.padding[0], o.padding[2]), o.adjustment_dims[1],
             o.kernel_dims[1], o.dilation[1], o.stride_dims[1], o.transpose)
RefHeight(o, in) ==
  RefDim(in[1], Add(o.padding[0], o.padding[2]), o.adjustment_dims[1],
         o.kernel_dims[1], o.dilation[1], o.stride_dims[1], o.transpose)

\* C3: every returned call holds, per axis, the value of the reference formula
\* over the mathematical integers (pad_dim the true sum of the two paddings of
\* the axis), whenever that formula's precondition holds.
C3_OutputDimsAreTheReference ==
  \A t \in Callers :
    (Constructed /\ pc[t] = "returned") =>
      /\ RefWidthDefined(object, input_dims[t]) =>
           result[t][0] = RefWidth(object, input_dims[t])
      /\ RefHeightDefined(object, input_dims[t]) =>
           result[t][1] = RefHeight(object, input_dims[t])

\* C4: with groups > 0 and both channel counts divisible by groups, the stored
\* group_input_channels * groups is input_channels and group_output_channels *
\* groups is output_channels, whatever the kernel, stride, dilation and scale.
C4_GroupChannelsTimesGroups ==
  (/\ Constructed
   /\ object.groups # <<>>
   /\ Divides(object.groups, object.input_channels)
   /\ Divides(object.groups, object.output_channels)) =>
    /\ Mul(object.group_input_channels, object.groups) = object.input_channels
    /\ Mul(object.group_output_channels, object.groups)
         = object.output_channels

\* C4's case: divisible channels in several groups, on an object whose kernel
\* check failed.
C4_Witness ==
  /\ Constructed
  /\ object.groups = N(4)
  /\ object.input_channels = N(8)
  /\ object.group_input_channels = N(2)
  /\ object.group_output_channels = N(1)
  /\ Logged("error", "kernel")

\* What a call on the object returns when it runs alone, as a set: one value
\* per axis, or the values an undefined division may yield.
AloneWidths(o, in) ==
  {output_width(o, in, ub).value :
     ub \in {u \in DimOutcomes(o, 0) : ~output_width(o, in, u).trap}}
AloneHeights(o, in) ==
  {output_height(o, in, ub).value :
     ub \in {u \in DimOutcomes(o, 1) : ~output_height(o, in, u).trap}}

C5_Results ==
  \A t \in Callers :
    /\ (Constructed /\ pc[t] \in {"height", "returned"}) =>
         output_dims[t][0] \in AloneWidths(object, input_dims[t])
    /\ (Constructed /\ pc[t] = "returned") =>
         /\ result[t] = output_dims[t]
         /\ result[t][1] \in AloneHeights(object, input_dims[t])

C5_Frame == phase # "new" => object' = object

\* C5: once constructed, no step of any caller changes a field of the object,
\* and every call, however interleaved with the other callers' calls, holds
\* what it returns when run alone on its input extent.
C5_CallsArePureAndIsolated == []C5_Results /\ [][C5_Frame]_vars

\* C5's case: one caller has returned while another, given a different input
\* extent, is between its two axes.
C5_Witness ==
  /\ Constructed
  /\ pc[1] = "returned"
  /\ pc[2] = "height"
  /\ input_dims[1] # input_dims[2]
  /\ result[1] # output_dims[2]

InfoCondition(what, o) ==
  CASE what = "stride_height" -> Lt(o.kernel_dims[1], o.stride_dims[1])
    [] what = "stride_width" -> Lt(o.kernel_dims[0], o.stride_dims[0])
    [] what = "padding_top" -> Le(o.kernel_dims[1], o.padding[0])
    [] what = "padding_bottom" -> Le(o.kernel_dims[1], o.padding[2])
    [] what = "padding_left" -> Le(o.kernel_dims[0], o.padding[1])
    [] what = "padding_right" -> Le(o.kernel_dims[0], o.padding[3])

InfoKinds ==
  {"stride_height", "stride_width", "padding_top", "padding_bottom",
   "padding_left", "padding_right"}

\* C6: each of the six info diagnostics is logged (once) exactly when its own
\* condition holds; a trap never follows one; and with any of them logged the
\* object holds the per-group channel counts and the ukernel_type that the
\* division and the classification give for the same parameters.
C6_WarningsAreAdvisory ==
  /\ phase = "trapped" => \A what \in InfoKinds : ~Logged("info", what)
  /\ Constructed =>
       /\ \A what \in InfoKinds :
            TimesLogged("info", what)
              = IF InfoCondition(what, object) THEN 1 ELSE 0
       /\ \A i \in 1..Len(log) :
            log[i].severity = "info" => log[i].what \in InfoKinds
       /\ object.groups # <<>> =>
            /\ object.group_input_channels
                 = DivMod(object.input_channels, object.groups).quot
            /\ object.group_output_channels
                 = DivMod(object.output_channels, object.groups).quot
       /\ object.ukernel_type
            = classify(object, object.group_input_channels,
                       object.group_output_channels)

\* C6's case: two diagnostics logged, and nothing else, for a 1x1 kernel that
\* is still classified and derived.
C6_Witness ==
  /\ Constructed
  /\ Len(log) = 2
  /\ Logged("info", "stride_height")
  /\ Logged("info", "padding_top")
  /\ object.ukernel_type = "conv"
  /\ object.group_input_channels = N(2)

\* C7 as claimed: no object is ever xzp_gemm, and every non-transposed 1x1,
\* stride (1,1), unpadded object is gemm.
C7_XzpGemmUnreachable ==
  Constructed =>
    /\ object.ukernel_type # "xzp_gemm"
    /\ (~object.transpose /\ object.kernel_dims = One2
        /\ object.stride_dims = One2 /\ NoPadding(object)) =>
         object.ukernel_type = "gemm"

\* C7 amended: an object is xzp_gemm only with group_input_channels equal to
\* SIZE_MAX (for groups > 0: input_channels = SIZE_MAX and groups = 1), and a
\* non-transposed 1x1, stride (1,1), unpadded object is xzp_gemm when
\* group_input_channels is SIZE_MAX and gemm otherwise.
C7_XzpGemmOnlyAtSizeMax ==
  Constructed =>
    /\ object.ukernel_type = "xzp_gemm" =>
         /\ object.group_input_channels = SIZE_MAX
         /\ object.groups # <<>> =>
              object.groups = N(1) /\ object.input_channels = SIZE_MAX
    /\ (~object.transpose /\ object.kernel_dims = One2
        /\ object.stride_dims = One2 /\ NoPadding(object)) =>
         object.ukernel_type
           = IF object.group_input_channels = SIZE_MAX
             THEN "xzp_gemm" ELSE "gemm"

\* C7's case: the branch taken, by input_channels = SIZE_MAX in one group.
C7_Witness ==
  /\ Constructed
  /\ object.ukernel_type = "xzp_gemm"
  /\ object.groups = N(1)
  /\ object.kernel_dims = One2

IsDepthwise(o) ==
  /\ ~o.transpose
  /\ Lt(N(1), o.groups)
  /\ o.group_input_channels = N(1)
  /\ o.group_output_channels = N(1)

\* C8 as claimed: a dwconv object has kernel_dims (3,3) or (5,5) and is a
\* depthwise configuration.
C8_DwconvOnly3x3Or5x5 ==
  (Constructed /\ object.ukernel_type = "dwconv") =>
    /\ object.kernel_dims \in {Array2(N(3), N(3)), Array2(N(5), N(5))}
    /\ IsDepthwise(object)

\* C8 amended: a dwconv object has a kernel whose uint32_t product
\* kernel_height * kernel_width is 9 or 25 (3x3 and 5x5, and also 1x9, 9x1,
\* 1x25, 25x1 and the pairs whose product is 9 or 25 modulo 2^32) and is a
\* depthwise configuration.
C8_DwconvOnlyProduct9Or25 ==
  (Constructed /\ object.ukernel_type = "dwconv") =>
    /\ Wrap(Mul(object.kernel_dims[1], object.kernel_dims[0]), U32Limbs)
         \in {N(9), N(25)}
    /\ IsDepthwise(object)

\* C8's case: a dwconv object whose kernel is not square.
C8_Witness ==
  /\ Constructed
  /\ object.ukernel_type = "dwconv"
  /\ object.kernel_dims = Array2(N(1), N(9))

\* C9: a gemm or xzp_gemm object has kernel_dims (1,1), for every pair of
\* kernel dimensions the uint32_t fields hold.
C9_GemmOnlyTrue1x1 ==
  (Constructed /\ object.ukernel_type \in {"gemm", "xzp_gemm"}) =>
    object.kernel_dims = One2

\* C10: once the constructor has run, ukernel_type is conv, gemm, xzp_gemm or
\* dwconv, never none.
C10_NeverNone ==
  Constructed => object.ukernel_type \in {"conv", "gemm", "xzp_gemm", "dwconv"}

\* C10's case: a non-transposed object that is neither depthwise nor 1x1,
\* classified by the last branch.
C10_Witness ==
  /\ Constructed
  /\ ~object.transpose
  /\ object.kernel_dims = Array2(N(2), N(2))
  /\ object.ukernel_type = "conv"

====
